---------------------------- MODULE Spec2Model ----------------------------
(***************************************************************************)
(* Model of mechkit/notation.py: the Converter (tensor / Mandel6 / Mandel9 *)
(* notations) and the VoigtConverter built on it.                          *)
(*                                                                         *)
(* Numbers.  The program computes in float64 with the constants sqrt(2)/2, *)
(* sqrt(2), 1/sqrt(2), 1/2 and 2.  The model computes in the ring          *)
(* Z[sqrt(2)][1/2]: a number is <<a, b, d>>, standing for                  *)
(* (a + b*sqrt(2)) / 2^d, kept normalised.  Every product and sum the code *)
(* forms stays in this ring, so the model's arithmetic is the exact value  *)
(* of which the float64 result is the rounding.                            *)
(*                                                                         *)
(* Arrays.  An ndarray is an object [buf, shape, offs]: the buffer it      *)
(* reads and writes, its shape, and for each of its elements (row-major)   *)
(* the position in the buffer.  Two objects with the same buf share        *)
(* storage.  heap maps buffers to their contents.                          *)
(***************************************************************************)
EXTENDS Integers, Sequences, FiniteSets, TLC

(***************************************************************************)
(* Bounds of the model.                                                    *)
(***************************************************************************)
\* Longest chain of calls the caller makes, each on the previous result.
MaxCalls == 2
\* The caller's generic arrays come in the multiples 1..MaxVal.
MaxVal == 2

(***************************************************************************)
(* State.  BASE6, BASE9: the bases the converter instance holds.  heap:    *)
(* the contents of every buffer allocated so far.  first: the array the    *)
(* caller starts with, orig its value at that time.  calls: the calls made *)
(* so far, each on the result of the one before.  inp, out, err: the       *)
(* argument, the returned array and the exception of the latest call.      *)
(* written: the item assignment the caller has made on an array it holds,  *)
(* if any.                                                                 *)
(***************************************************************************)
VARIABLES BASE6, BASE9, heap, first, orig, calls, inp, out, err, written

vars == <<BASE6, BASE9, heap, first, orig, calls, inp, out, err, written>>

(***************************************************************************)
(* Arithmetic in Z[sqrt(2)][1/2].                                          *)
(***************************************************************************)
RECURSIVE Norm(_, _, _)
Norm(a, b, d) ==
    IF a = 0 /\ b = 0 THEN <<0, 0, 0>>
    ELSE IF d > 0 /\ a % 2 = 0 /\ b % 2 = 0
         THEN Norm(a \div 2, b \div 2, d - 1)
         ELSE <<a, b, d>>

Zero == <<0, 0, 0>>
One  == <<1, 0, 0>>
Int2Num(n) == <<n, 0, 0>>
\* np.sqrt(2.)
Sqrt2 == <<0, 1, 0>>

Max(m, n) == IF m >= n THEN m ELSE n

Add(x, y) ==
    IF x = Zero THEN y
    ELSE IF y = Zero THEN x
    ELSE LET D == Max(x[3], y[3])
             p == 2 ^ (D - x[3])
             q == 2 ^ (D - y[3])
         IN  Norm(x[1] * p + y[1] * q, x[2] * p + y[2] * q, D)

Neg(x) == <<0 - x[1], 0 - x[2], x[3]>>

Mul(x, y) ==
    IF x = Zero \/ y = Zero THEN Zero
    ELSE Norm(x[1] * y[1] + 2 * x[2] * y[2],
              x[1] * y[2] + x[2] * y[1],
              x[3] + y[3])

RECURSIVE Log2(_)
Log2(n) == IF n <= 1 THEN 0 ELSE 1 + Log2(n \div 2)

Abs(n) == IF n < 0 THEN 0 - n ELSE n

\* x / y for a divisor whose norm a^2 - 2 b^2 is plus or minus a power of
\* two (every factor of the Voigt table is one):
\* 1 / ((a + b sqrt2)/2^d) = 2^d (a - b sqrt2) / (a^2 - 2 b^2).
Div(x, y) ==
    LET n == y[1] * y[1] - 2 * y[2] * y[2]
        s == IF n < 0 THEN 0 - 1 ELSE 1
        inv == Norm(s * y[1] * 2 ^ y[3], 0 - s * y[2] * 2 ^ y[3], Log2(Abs(n)))
    IN  Mul(x, inv)

\* Sum of f[0] .. f[n-1].
RECURSIVE SumFn(_, _)
SumFn(f, n) == IF n = 0 THEN Zero ELSE Add(SumFn(f, n - 1), f[n - 1])

(***************************************************************************)
(* Array values: [shape |-> <<..>>, data |-> [0 .. size-1 -> number]],     *)
(* row-major.                                                              *)
(***************************************************************************)
RECURSIVE Size(_)
Size(shape) == IF shape = <<>> THEN 1 ELSE Head(shape) * Size(Tail(shape))

\* np.zeros(shape)
zeros(shape) == [shape |-> shape, data |-> [k \in 0 .. Size(shape) - 1 |-> Zero]]

(***************************************************************************)
(* Converter.__init__                                                      *)
(***************************************************************************)
DIM == 3
DIM_MANDEL6 == 6
DIM_MANDEL9 == 9
\* The factor without the square root: 1 / 2.
factor_half == Div(One, Int2Num(2))

\* self.factor = np.sqrt(2.) / 2.
factor == Div(Sqrt2, Int2Num(2))
\* self.SLICE6 = np.s_[0:6]
SLICE6 == 0 .. 5

\* Position of B[a, i, j] in a (K, 3, 3) array.
At3(a, i, j) == a * DIM * DIM + i * DIM + j

\* B with B[a, i, j] = v for every <<a, i, j, v>> of the list, in order.
RECURSIVE Assign(_, _)
Assign(B, writes) ==
    IF writes = <<>> THEN B
    ELSE LET w == Head(writes)
         IN  Assign([B EXCEPT !.data[At3(w[1], w[2], w[3])] = w[4]], Tail(writes))

\* The off-diagonal dyads in the order (0,1), (0,2), (1,2).
get_mandel_base_sym_swapped ==
    Assign(zeros(<<DIM_MANDEL6, DIM, DIM>>),
           << <<0, 0, 0, One>>, <<1, 1, 1, One>>, <<2, 2, 2, One>>,
              <<3, 0, 1, factor>>, <<3, 1, 0, factor>>,
              <<4, 0, 2, factor>>, <<4, 2, 0, factor>>,
              <<5, 1, 2, factor>>, <<5, 2, 1, factor>> >>)

get_mandel_base_sym ==
    Assign(zeros(<<DIM_MANDEL6, DIM, DIM>>),
           << <<0, 0, 0, One>>, <<1, 1, 1, One>>, <<2, 2, 2, One>>,
              <<3, 1, 2, factor>>, <<3, 2, 1, factor>>,
              <<4, 0, 2, factor>>, <<4, 2, 0, factor>>,
              <<5, 0, 1, factor>>, <<5, 1, 0, factor>> >>)

\* B[0:6, :, :] = self.get_mandel_base_sym()
BaseSkwStart ==
    LET S == get_mandel_base_sym
    IN  [shape |-> <<DIM_MANDEL9, DIM, DIM>>,
         data  |-> [k \in 0 .. DIM_MANDEL9 * DIM * DIM - 1 |->
                       IF k < DIM_MANDEL6 * DIM * DIM THEN S.data[k] ELSE Zero]]

\* The skew dyad 8 written with the sign of a symmetric dyad.
get_mandel_base_skw_nosign ==
    Assign(BaseSkwStart,
           << <<6, 1, 2, Neg(factor)>>, <<6, 2, 1, factor>>,
              <<7, 0, 2, factor>>, <<7, 2, 0, Neg(factor)>>,
              <<8, 0, 1, factor>>, <<8, 1, 0, factor>> >>)

get_mandel_base_skw ==
    Assign(BaseSkwStart,
           << <<6, 1, 2, Neg(factor)>>, <<6, 2, 1, factor>>,
              <<7, 0, 2, factor>>, <<7, 2, 0, Neg(factor)>>,
              <<8, 0, 1, Neg(factor)>>, <<8, 1, 0, factor>> >>)


(***************************************************************************)
(* The heap of ndarray buffers.                                            *)
(***************************************************************************)
None == [none |-> TRUE]
NoError == [exc |-> "none"]
KeyError(key) == [exc |-> "KeyError", key |-> key]
IndexError == [exc |-> "IndexError"]

\* The value of array object o.
Read(h, o) ==
    [shape |-> o.shape,
     data  |-> [k \in 0 .. Size(o.shape) - 1 |-> h[o.buf][o.offs[k]]]]

\* The outcome of a call: the heap after it, what it returned, what it raised.
Return(h, o) == [heap |-> h, ret |-> o, err |-> NoError]
Raise(h, e) == [heap |-> h, ret |-> None, err |-> e]

\* A new array holding value v, in a buffer of its own.
NewObj(h, v) ==
    [buf |-> Len(h) + 1, shape |-> v.shape,
     offs |-> [k \in 0 .. Size(v.shape) - 1 |-> k]]
Fresh(h, v) == Return(Append(h, v.data), NewObj(h, v))

(***************************************************************************)
(* Converter: the contractions.                                            *)
(***************************************************************************)
\* Number of dyads of a base of shape (K, 3, 3).
NDyads(base) == base.shape[1]
DD == DIM * DIM

\* np.einsum('aij, ij ->a', base, inp)
tensor2_to_mandel(v, base) ==
    LET K == NDyads(base)
    IN  [shape |-> <<K>>,
         data  |-> [a \in 0 .. K - 1 |->
                      SumFn([p \in 0 .. DD - 1 |->
                               Mul(base.data[a * DD + p], v.data[p])], DD)]]

\* The output written as 'ba': rows and columns exchanged.
tensor4_to_mandel_transposed(v, base) ==
    LET K == NDyads(base)
        tmp == [a \in 0 .. K - 1 |-> [q \in 0 .. DD - 1 |->
                  SumFn([p \in 0 .. DD - 1 |->
                           Mul(base.data[a * DD + p], v.data[p * DD + q])], DD)]]
    IN  [shape |-> <<K, K>>,
         data  |-> [n \in 0 .. K * K - 1 |->
                      LET a == n % K
                          b == n \div K
                      IN  SumFn([q \in 0 .. DD - 1 |->
                                   Mul(tmp[a][q], base.data[b * DD + q])], DD)]]

\* np.einsum('aij, ijkl, bkl ->ab', base, inp, base), contracted over ij
\* first and over kl second.
tensor4_to_mandel(v, base) ==
    LET K == NDyads(base)
        tmp == [a \in 0 .. K - 1 |-> [q \in 0 .. DD - 1 |->
                  SumFn([p \in 0 .. DD - 1 |->
                           Mul(base.data[a * DD + p], v.data[p * DD + q])], DD)]]
    IN  [shape |-> <<K, K>>,
         data  |-> [n \in 0 .. K * K - 1 |->
                      LET a == n \div K
                          b == n % K
                      IN  SumFn([q \in 0 .. DD - 1 |->
                                   Mul(tmp[a][q], base.data[b * DD + q])], DD)]]

\* np.einsum('ajk, a->jk', base, inp)
mandel_2_to_tensor(v, base) ==
    LET K == NDyads(base)
    IN  [shape |-> <<DIM, DIM>>,
         data  |-> [p \in 0 .. DD - 1 |->
                      SumFn([a \in 0 .. K - 1 |->
                               Mul(base.data[a * DD + p], v.data[a])], K)]]

\* The output written as 'mnjk': the two index pairs exchanged.
mandel_4_to_tensor_transposed(v, base) ==
    LET K == NDyads(base)
        tmp == [p \in 0 .. DD - 1 |-> [b \in 0 .. K - 1 |->
                  SumFn([a \in 0 .. K - 1 |->
                           Mul(base.data[a * DD + p], v.data[a * K + b])], K)]]
    IN  [shape |-> <<DIM, DIM, DIM, DIM>>,
         data  |-> [n \in 0 .. DD * DD - 1 |->
                      LET p == n % DD
                          q == n \div DD
                      IN  SumFn([b \in 0 .. K - 1 |->
                                   Mul(tmp[p][b], base.data[b * DD + q])], K)]]

\* np.einsum('ajk, ab, bmn->jkmn', base, inp, base), contracted over a
\* first and over b second.
mandel_4_to_tensor(v, base) ==
    LET K == NDyads(base)
        tmp == [p \in 0 .. DD - 1 |-> [b \in 0 .. K - 1 |->
                  SumFn([a \in 0 .. K - 1 |->
                           Mul(base.data[a * DD + p], v.data[a * K + b])], K)]]
    IN  [shape |-> <<DIM, DIM, DIM, DIM>>,
         data  |-> [n \in 0 .. DD * DD - 1 |->
                      LET p == n \div DD
                          q == n % DD
                      IN  SumFn([b \in 0 .. K - 1 |->
                                   Mul(tmp[p][b], base.data[b * DD + q])], K)]]

\* Returning a copy of the argument instead of the argument.
pass_through_copy(h, x) == Fresh(h, Read(h, x))

pass_through(h, x) == Return(h, x)

tensor2_to_mandel6(h, x) == Fresh(h, tensor2_to_mandel(Read(h, x), BASE6))
tensor2_to_mandel9(h, x) == Fresh(h, tensor2_to_mandel(Read(h, x), BASE9))
tensor4_to_mandel6(h, x) == Fresh(h, tensor4_to_mandel(Read(h, x), BASE6))
tensor4_to_mandel9(h, x) == Fresh(h, tensor4_to_mandel(Read(h, x), BASE9))
mandel6_2_to_tensor(h, x) == Fresh(h, mandel_2_to_tensor(Read(h, x), BASE6))
mandel6_4_to_tensor(h, x) == Fresh(h, mandel_4_to_tensor(Read(h, x), BASE6))
mandel9_2_to_tensor(h, x) == Fresh(h, mandel_2_to_tensor(Read(h, x), BASE9))
mandel9_4_to_tensor(h, x) == Fresh(h, mandel_4_to_tensor(Read(h, x), BASE9))

\* zeros[3:9] = inp: the values in the last 6 slots.
mandel6_2_to_mandel9_tail(h, x) ==
    LET v == Read(h, x)
    IN  Fresh(h, [shape |-> <<DIM_MANDEL9>>,
                  data  |-> [k \in 0 .. DIM_MANDEL9 - 1 |->
                               IF k >= 3 THEN v.data[k - 3] ELSE Zero]])

\* zeros = np.zeros((9,)); zeros[SLICE6] = inp
mandel6_2_to_mandel9(h, x) ==
    LET v == Read(h, x)
    IN  Fresh(h, [shape |-> <<DIM_MANDEL9>>,
                  data  |-> [k \in 0 .. DIM_MANDEL9 - 1 |->
                               IF k \in SLICE6 THEN v.data[k] ELSE Zero]])

\* zeros[SLICE6, SLICE6] = inp.T: rows and columns exchanged.
mandel6_4_to_mandel9_transposed(h, x) ==
    LET v == Read(h, x)
    IN  Fresh(h, [shape |-> <<DIM_MANDEL9, DIM_MANDEL9>>,
                  data  |-> [n \in 0 .. DIM_MANDEL9 * DIM_MANDEL9 - 1 |->
                               LET r == n \div DIM_MANDEL9
                                   c == n % DIM_MANDEL9
                               IN  IF r \in SLICE6 /\ c \in SLICE6
                                   THEN v.data[c * DIM_MANDEL6 + r]
                                   ELSE Zero]])

\* zeros = np.zeros((9, 9)); zeros[SLICE6, SLICE6] = inp
mandel6_4_to_mandel9(h, x) ==
    LET v == Read(h, x)
    IN  Fresh(h, [shape |-> <<DIM_MANDEL9, DIM_MANDEL9>>,
                  data  |-> [n \in 0 .. DIM_MANDEL9 * DIM_MANDEL9 - 1 |->
                               LET r == n \div DIM_MANDEL9
                                   c == n % DIM_MANDEL9
                               IN  IF r \in SLICE6 /\ c \in SLICE6
                                   THEN v.data[r * DIM_MANDEL6 + c]
                                   ELSE Zero]])

\* inp[SLICE6]: basic slicing, a view on the argument's buffer.
mandel9_2_to_mandel6(h, x) ==
    Return(h, [buf |-> x.buf, shape |-> <<DIM_MANDEL6>>,
               offs |-> [k \in 0 .. DIM_MANDEL6 - 1 |-> x.offs[k]]])

\* inp[SLICE6, SLICE6].copy(): the block in a buffer of its own.
mandel9_4_to_mandel6_copy(h, x) ==
    LET v == Read(h, x)
    IN  Fresh(h, [shape |-> <<DIM_MANDEL6, DIM_MANDEL6>>,
                  data  |-> [n \in 0 .. DIM_MANDEL6 * DIM_MANDEL6 - 1 |->
                               v.data[(n \div DIM_MANDEL6) * DIM_MANDEL9
                                      + (n % DIM_MANDEL6)]]])

\* inp[SLICE6, SLICE6]: a view on the argument's buffer.
mandel9_4_to_mandel6(h, x) ==
    Return(h, [buf |-> x.buf, shape |-> <<DIM_MANDEL6, DIM_MANDEL6>>,
               offs |-> [n \in 0 .. DIM_MANDEL6 * DIM_MANDEL6 - 1 |->
                           x.offs[(n \div DIM_MANDEL6) * DIM_MANDEL9
                                  + (n % DIM_MANDEL6)]]])

(***************************************************************************)
(* Converter: dispatch on the shape.                                       *)
(***************************************************************************)
types ==
    (<<DIM, DIM>> :> "t_2") @@ (<<DIM, DIM, DIM, DIM>> :> "t_4")
    @@ (<<DIM_MANDEL6>> :> "m6_2") @@ (<<DIM_MANDEL6, DIM_MANDEL6>> :> "m6_4")
    @@ (<<DIM_MANDEL9>> :> "m9_2") @@ (<<DIM_MANDEL9, DIM_MANDEL9>> :> "m9_4")

\* A looked-up value, as opposed to the exception a lookup raises.
Found(val) == [exc |-> "none", val |-> val]
IsError(r) == r.exc # "none"

\* types[inp.shape]: the type, or the KeyError the lookup raises.
get_type_by_shape(x) ==
    IF x.shape \in DOMAIN types THEN Found(types[x.shape]) ELSE KeyError(x.shape)

\* The function the dispatch table of to_mandel6 holds for the type.
get_to_mandel6_func(x) ==
    LET type_ == get_type_by_shape(x)
    IN  IF IsError(type_) THEN type_
        ELSE Found([t_2  |-> "tensor2_to_mandel6",
              t_4  |-> "tensor4_to_mandel6",
              m6_2 |-> "pass_through",
              m6_4 |-> "pass_through",
              m9_2 |-> "mandel9_2_to_mandel6",
              m9_4 |-> "mandel9_4_to_mandel6"][type_.val])

get_to_mandel9_func(x) ==
    LET type_ == get_type_by_shape(x)
    IN  IF IsError(type_) THEN type_
        ELSE Found([t_2  |-> "tensor2_to_mandel9",
              t_4  |-> "tensor4_to_mandel9",
              m6_2 |-> "mandel6_2_to_mandel9",
              m6_4 |-> "mandel6_4_to_mandel9",
              m9_2 |-> "pass_through",
              m9_4 |-> "pass_through"][type_.val])

get_to_tensor_func(x) ==
    LET type_ == get_type_by_shape(x)
    IN  IF IsError(type_) THEN type_
        ELSE Found([t_2  |-> "pass_through",
              t_4  |-> "pass_through",
              m6_2 |-> "mandel6_2_to_tensor",
              m6_4 |-> "mandel6_4_to_tensor",
              m9_2 |-> "mandel9_2_to_tensor",
              m9_4 |-> "mandel9_4_to_tensor"][type_.val])

\* f(inp=inp) for the bound method named f.
Apply(f, h, x) ==
    CASE f = "pass_through"         -> pass_through(h, x)
      [] f = "tensor2_to_mandel6"   -> tensor2_to_mandel6(h, x)
      [] f = "tensor4_to_mandel6"   -> tensor4_to_mandel6(h, x)
      [] f = "tensor2_to_mandel9"   -> tensor2_to_mandel9(h, x)
      [] f = "tensor4_to_mandel9"   -> tensor4_to_mandel9(h, x)
      [] f = "mandel6_2_to_tensor"  -> mandel6_2_to_tensor(h, x)
      [] f = "mandel6_4_to_tensor"  -> mandel6_4_to_tensor(h, x)
      [] f = "mandel9_2_to_tensor"  -> mandel9_2_to_tensor(h, x)
      [] f = "mandel9_4_to_tensor"  -> mandel9_4_to_tensor(h, x)
      [] f = "mandel6_2_to_mandel9" -> mandel6_2_to_mandel9(h, x)
      [] f = "mandel6_4_to_mandel9" -> mandel6_4_to_mandel9(h, x)
      [] f = "mandel9_2_to_mandel6" -> mandel9_2_to_mandel6(h, x)
      [] f = "mandel9_4_to_mandel6" -> mandel9_4_to_mandel6(h, x)

to_mandel6(h, x) ==
    LET f == get_to_mandel6_func(x)
    IN  IF IsError(f) THEN Raise(h, f) ELSE Apply(f.val, h, x)

to_mandel9(h, x) ==
    LET f == get_to_mandel9_func(x)
    IN  IF IsError(f) THEN Raise(h, f) ELSE Apply(f.val, h, x)

\* An unknown shape taken for tensor notation and passed through.
to_tensor_lenient(h, x) ==
    LET f == get_to_tensor_func(x)
    IN  IF IsError(f) THEN pass_through(h, x) ELSE Apply(f.val, h, x)

to_tensor(h, x) ==
    LET f == get_to_tensor_func(x)
    IN  IF IsError(f) THEN Raise(h, f) ELSE Apply(f.val, h, x)

(***************************************************************************)
(* VoigtConverter.                                                         *)
(***************************************************************************)
\* np.s_[3:6] and the four np.s_[r0:r1, c0:c1]: one <<start, stop>> an axis.
shear     == << <<3, 6>> >>
quadrant1 == << <<0, 3>>, <<0, 3>> >>
quadrant2 == << <<0, 3>>, <<3, 6>> >>
quadrant3 == << <<3, 6>>, <<0, 3>> >>
quadrant4 == << <<3, 6>>, <<3, 6>> >>

\* The table with the factors of stress and strain exchanged.
factors_mandel_to_voigt_swapped ==
    [stress     |-> << <<shear, Sqrt2>> >>,
     strain     |-> << <<shear, Div(One, Sqrt2)>> >>,
     stiffness  |-> << <<quadrant2, Div(One, Sqrt2)>>,
                       <<quadrant3, Div(One, Sqrt2)>>,
                       <<quadrant4, Div(One, Int2Num(2))>> >>,
     compliance |-> << <<quadrant2, Sqrt2>>,
                       <<quadrant3, Sqrt2>>,
                       <<quadrant4, Int2Num(2)>> >>]

factors_mandel_to_voigt ==
    [stress     |-> << <<shear, Div(One, Sqrt2)>> >>,
     strain     |-> << <<shear, Sqrt2>> >>,
     stiffness  |-> << <<quadrant2, Div(One, Sqrt2)>>,
                       <<quadrant3, Div(One, Sqrt2)>>,
                       <<quadrant4, Div(One, Int2Num(2))>> >>,
     compliance |-> << <<quadrant2, Sqrt2>>,
                       <<quadrant3, Sqrt2>>,
                       <<quadrant4, Int2Num(2)>> >>]

\* Index of element k of an array of the given shape along axis m (1-based).
RECURSIVE Stride(_, _)
Stride(shape, m) ==
    IF m >= Len(shape) THEN 1 ELSE shape[m + 1] * Stride(shape, m + 1)
Coord(shape, k, m) == (k \div Stride(shape, m)) % shape[m]

\* The elements of an array of the given shape that a[position] selects.
Selected(shape, position) ==
    {k \in 0 .. Size(shape) - 1 :
        \A m \in 1 .. Len(position) :
            /\ Coord(shape, k, m) >= position[m][1]
            /\ Coord(shape, k, m) < position[m][2]}

\* inp.copy()
copy(h, x) == Fresh(h, Read(h, x))

\* target[position] = source[position] * f, written through to the buffer.
SetScaled(h, target, source, position, f, inverse) ==
    LET sel == Selected(target.shape, position)
        val(k) == LET e == h[source.buf][source.offs[k]]
                  IN  IF inverse THEN Div(Mul(e, One), f) ELSE Mul(e, f)
    IN  [h EXCEPT ![target.buf] =
            [b \in DOMAIN @ |->
                LET ks == {k \in sel : target.offs[k] = b}
                IN  IF ks = {} THEN @[b] ELSE val(CHOOSE k \in ks : TRUE)]]

\* for position, factor in todo: target[position] = source[position] * factor
\* (* 1./factor when inverse); an index with more axes than the array raises.
RECURSIVE ScaleLoop(_, _, _, _, _)
ScaleLoop(h, target, source, todo, inverse) ==
    IF todo = <<>> THEN Return(h, target)
    ELSE LET position == Head(todo)[1]
             f == Head(todo)[2]
         IN  IF Len(position) > Len(source.shape) THEN Raise(h, IndexError)
             ELSE ScaleLoop(SetScaled(h, target, source, position, f, inverse),
                            target, source, Tail(todo), inverse)

\* voigt = inp, without the copy: the loop writes into the argument.
mandel6_to_voigt_inplace(h, x, voigt_type) ==
    IF voigt_type \notin DOMAIN factors_mandel_to_voigt
    THEN Raise(h, KeyError(voigt_type))
    ELSE ScaleLoop(h, x, x, factors_mandel_to_voigt[voigt_type], FALSE)

\* The table read with .get(voigt_type, []): an unknown key scales nothing.
mandel6_to_voigt_default(h, x, voigt_type) ==
    LET voigt == copy(h, x)
    IN  IF voigt_type \notin DOMAIN factors_mandel_to_voigt
        THEN Return(voigt.heap, voigt.ret)
        ELSE ScaleLoop(voigt.heap, voigt.ret, x,
                       factors_mandel_to_voigt[voigt_type], FALSE)

mandel6_to_voigt(h, x, voigt_type) ==
    LET voigt == copy(h, x)
    IN  IF voigt_type \notin DOMAIN factors_mandel_to_voigt
        THEN Raise(voigt.heap, KeyError(voigt_type))
        ELSE ScaleLoop(voigt.heap, voigt.ret, x,
                       factors_mandel_to_voigt[voigt_type], FALSE)

\* Multiplying by the factor again instead of by its reciprocal.
voigt_to_mandel6_forward(h, x, voigt_type) ==
    LET mandel == copy(h, x)
    IN  IF voigt_type \notin DOMAIN factors_mandel_to_voigt
        THEN Raise(mandel.heap, KeyError(voigt_type))
        ELSE ScaleLoop(mandel.heap, mandel.ret, x,
                       factors_mandel_to_voigt[voigt_type], FALSE)

voigt_to_mandel6(h, x, voigt_type) ==
    LET mandel == copy(h, x)
    IN  IF voigt_type \notin DOMAIN factors_mandel_to_voigt
        THEN Raise(mandel.heap, KeyError(voigt_type))
        ELSE ScaleLoop(mandel.heap, mandel.ret, x,
                       factors_mandel_to_voigt[voigt_type], TRUE)

(***************************************************************************)
(* The caller's arrays.                                                    *)
(***************************************************************************)
\* One entry 1, the others 0.
Unit(shape, p) ==
    [shape |-> shape,
     data  |-> [k \in 0 .. Size(shape) - 1 |-> IF k = p THEN One ELSE Zero]]

\* Entries 1, 2, 3, ...: no two equal.
Ramp(shape) ==
    [shape |-> shape, data |-> [k \in 0 .. Size(shape) - 1 |-> Int2Num(k + 1)]]

\* Entries with an irrational part: ((k + 1) + (k + 2) sqrt 2) / 2.
Mixed(shape) ==
    [shape |-> shape,
     data  |-> [k \in 0 .. Size(shape) - 1 |-> Norm(k + 1, k + 2, 1)]]

Scale(c, v) == [v EXCEPT !.data = [k \in DOMAIN @ |-> Mul(Int2Num(c), @[k])]]

\* T[i,j,k,l] + T[j,i,k,l] + T[i,j,l,k] + T[j,i,l,k] for a (3,3,3,3) value.
Tr(p) == (p % DIM) * DIM + (p \div DIM)
MinorSum(v) ==
    [v EXCEPT !.data = [n \in DOMAIN @ |->
        LET p == n \div DD
            q == n % DD
        IN  Add(Add(@[p * DD + q], @[Tr(p) * DD + q]),
                Add(@[p * DD + Tr(q)], @[Tr(p) * DD + Tr(q)]))]]

\* T + transpose(T) for a (3,3) value.
SymSum(v) == [v EXCEPT !.data = [p \in DOMAIN @ |-> Add(@[p], @[Tr(p)])]]

Shapes == DOMAIN types
BadShapes == {<<5>>, <<4, 4>>}

\* The arrays with one entry 1, and those built from them that have the
\* symmetry of the Mandel6 base.
Units ==
    UNION {{Unit(s, p) : p \in 0 .. Size(s) - 1} : s \in Shapes \cup BadShapes}
    \cup {MinorSum(Unit(<<DIM, DIM, DIM, DIM>>, p)) : p \in 0 .. DD * DD - 1}
    \cup {SymSum(Unit(<<DIM, DIM>>, p)) : p \in 0 .. DD - 1}

\* Arrays with no two entries equal and none 0, with and without symmetry,
\* and their multiples.
Generic ==
    UNION {{Ramp(s), Mixed(s)} : s \in Shapes \cup BadShapes}
    \cup {MinorSum(Ramp(<<DIM, DIM, DIM, DIM>>)), MinorSum(Mixed(<<DIM, DIM, DIM, DIM>>))}
    \cup {SymSum(Ramp(<<DIM, DIM>>)), SymSum(Mixed(<<DIM, DIM>>))}

GenericInputs == {Scale(c, v) : c \in 1 .. MaxVal, v \in Generic}

Inputs == Units \cup GenericInputs

\* The keys the caller passes as voigt_type; the last is not in the table.
VoigtTypes == {"stress", "strain", "stiffness", "compliance", "shear"}

(***************************************************************************)
(* The state machine: a converter instance and one caller.                 *)
(***************************************************************************)
\* A converter just constructed, and a caller holding one array of S.
InitOn(S) ==
    /\ BASE6 = get_mandel_base_sym
    /\ BASE9 = get_mandel_base_skw
    /\ \E v \in S :
         /\ heap = <<v.data>>
         /\ first = NewObj(<<>>, v)
         /\ orig = v
    /\ calls = <<>>
    /\ inp = None
    /\ out = None
    /\ err = NoError
    /\ written = None

Init == InitOn(Inputs)

\* The array the next call is made on.
Arg == IF calls = <<>> THEN first ELSE out

CanCall == Len(calls) < MaxCalls /\ err = NoError

Do(call, r) ==
    /\ heap' = r.heap
    /\ inp' = Arg
    /\ out' = r.ret
    /\ err' = r.err
    /\ calls' = Append(calls, call)
    /\ UNCHANGED <<BASE6, BASE9, first, orig, written>>

ToMandel6 == CanCall /\ Do(<<"to_mandel6">>, to_mandel6(heap, Arg))

ToMandel9 == CanCall /\ Do(<<"to_mandel9">>, to_mandel9(heap, Arg))

ToTensor == CanCall /\ Do(<<"to_tensor">>, to_tensor(heap, Arg))

\* The Voigt methods take an array of shape (6,) or (6, 6).
VoigtArg == Arg.shape \in {<<DIM_MANDEL6>>, <<DIM_MANDEL6, DIM_MANDEL6>>}

Mandel6ToVoigt ==
    /\ CanCall /\ VoigtArg
    /\ \E voigt_type \in VoigtTypes :
         Do(<<"mandel6_to_voigt", voigt_type>>,
            mandel6_to_voigt(heap, Arg, voigt_type))

VoigtToMandel6 ==
    /\ CanCall /\ VoigtArg
    /\ \E voigt_type \in VoigtTypes :
         Do(<<"voigt_to_mandel6", voigt_type>>,
            voigt_to_mandel6(heap, Arg, voigt_type))

Next == ToMandel6 \/ ToMandel9 \/ ToTensor \/ Mandel6ToVoigt \/ VoigtToMandel6

Spec == Init /\ [][Next]_vars

\* The same converter, its caller starting from a generic array: for the
\* properties of the bases, which no choice of the caller's array affects.
InitGeneric == InitOn(GenericInputs)

SpecGeneric == InitGeneric /\ [][Next]_vars

(***************************************************************************)
(* The caller writing into the arrays it holds after a call: a[k] = value, *)
(* written through to the buffer of a, as ndarray item assignment does.    *)
(***************************************************************************)
SetItem(h, o, k, val) == [h EXCEPT ![o.buf][o.offs[k]] = val]

\* The value the caller writes: no entry of its arrays is negative.
WriteValue == Int2Num(0 - 1)

\* The caller writes the first or the last element.
WritePositions(o) == {0, Size(o.shape) - 1}

\* The caller writes into the array the latest call returned.
WriteOut ==
    /\ written = None /\ out # None
    /\ \E k \in WritePositions(out) :
         /\ heap' = SetItem(heap, out, k, WriteValue)
         /\ written' = [target |-> "out", k |-> k]
    /\ UNCHANGED <<BASE6, BASE9, first, orig, calls, inp, out, err>>

\* The caller writes into the array it passed to the latest call.
WriteInp ==
    /\ written = None /\ out # None
    /\ \E k \in WritePositions(inp) :
         /\ heap' = SetItem(heap, inp, k, WriteValue)
         /\ written' = [target |-> "inp", k |-> k]
    /\ UNCHANGED <<BASE6, BASE9, first, orig, calls, inp, out, err>>

NextWrite == Next \/ WriteOut \/ WriteInp

\* The caller starts from one of the generic arrays themselves.
InitWrite == InitOn(Generic)

SpecWrite == InitWrite /\ [][NextWrite]_vars

(***************************************************************************)
(* Vocabulary of the properties.                                           *)
(***************************************************************************)
T2 == <<DIM, DIM>>
T4 == <<DIM, DIM, DIM, DIM>>
M6_2 == <<DIM_MANDEL6>>
M6_4 == <<DIM_MANDEL6, DIM_MANDEL6>>
M9_2 == <<DIM_MANDEL9>>
M9_4 == <<DIM_MANDEL9, DIM_MANDEL9>>

\* The latest call, and the value of the array it returned.
Last == calls[Len(calls)]
Result == Read(heap, out)

\* The caller made exactly these calls, in this order, on its first array.
Made(cs) == calls = cs

Quarter == <<1, 0, 2>>
Half == <<1, 0, 1>>
\* 1/sqrt(2) = sqrt(2)/2
InvSqrt2 == <<0, 1, 1>>

\* (T[ijkl] + T[jikl] + T[ijlk] + T[jilk]) / 4
MinorSymmetrized(v) ==
    [v EXCEPT !.data = [n \in DOMAIN @ |->
        LET p == n \div DD
            q == n % DD
        IN  Mul(Quarter, Add(Add(@[p * DD + q], @[Tr(p) * DD + q]),
                             Add(@[p * DD + Tr(q)], @[Tr(p) * DD + Tr(q)])))]]

IsMinorSymmetric(v) ==
    \A p, q \in 0 .. DD - 1 :
        /\ v.data[p * DD + q] = v.data[Tr(p) * DD + q]
        /\ v.data[p * DD + q] = v.data[p * DD + Tr(q)]

\* sum over i, j of basis[a,i,j] * basis[b,i,j]
Dot(base, a, b) ==
    SumFn([p \in 0 .. DD - 1 |->
             Mul(base.data[a * DD + p], base.data[b * DD + p])], DD)

Orthonormal(base) ==
    \A a, b \in 0 .. NDyads(base) - 1 :
        Dot(base, a, b) = IF a = b THEN One ELSE Zero

(***************************************************************************)
(* C1.  For every (3,3) and every (3,3,3,3) array T, symmetric or not,     *)
(* to_tensor(to_mandel9(T)) equals T elementwise.                          *)
(***************************************************************************)
C1_RoundTripMandel9 ==
    (Made(<< <<"to_mandel9">>, <<"to_tensor">> >>) /\ orig.shape \in {T2, T4})
        => (err = NoError /\ Result = orig)

C1_Witness ==
    /\ Made(<< <<"to_mandel9">>, <<"to_tensor">> >>)
    /\ orig = Ramp(T4)
    /\ ~IsMinorSymmetric(orig)
    /\ Result = orig

(***************************************************************************)
(* C2.  For a (3,3,3,3) array T, to_tensor(to_mandel6(T)) is the minor     *)
(* symmetrization of T; it equals T when T is minor-symmetric and differs  *)
(* from T for every T that is not.                                         *)
(***************************************************************************)
C2_RoundTripMandel6 ==
    (Made(<< <<"to_mandel6">>, <<"to_tensor">> >>) /\ orig.shape = T4)
        => /\ err = NoError
           /\ Result = MinorSymmetrized(orig)
           /\ (Result = orig) <=> IsMinorSymmetric(orig)

C2_Witness ==
    /\ Made(<< <<"to_mandel6">>, <<"to_tensor">> >>)
    /\ orig = MinorSum(Mixed(T4))
    /\ Result = orig

C2_WitnessLossy ==
    /\ Made(<< <<"to_mandel6">>, <<"to_tensor">> >>)
    /\ orig = Ramp(T4)
    /\ Result # orig

(***************************************************************************)
(* C3.  Reconstruction followed by projection is the identity on reduced   *)
(* arrays: to_mandel6(to_tensor(M)) = M for M of shape (6,) or (6,6), and  *)
(* to_mandel9(to_tensor(M)) = M for M of shape (9,) or (9,9).              *)
(***************************************************************************)
C3_ReducedRoundTrip ==
    /\ (Made(<< <<"to_tensor">>, <<"to_mandel6">> >>) /\ orig.shape \in {M6_2, M6_4})
          => (err = NoError /\ Result = orig)
    /\ (Made(<< <<"to_tensor">>, <<"to_mandel9">> >>) /\ orig.shape \in {M9_2, M9_4})
          => (err = NoError /\ Result = orig)

C3_Witness ==
    /\ Made(<< <<"to_tensor">>, <<"to_mandel9">> >>)
    /\ orig = Mixed(M9_4)
    /\ Result = orig

(***************************************************************************)
(* C4.  Both bases of the converter are orthonormal (the sum over i, j of  *)
(* basis[a,i,j] * basis[b,i,j] is 1 when a = b and 0 otherwise), and the   *)
(* first 6 dyads of BASE9 are the 6 dyads of BASE6.                        *)
(***************************************************************************)
C4_Orthonormal ==
    /\ BASE6.shape = <<DIM_MANDEL6, DIM, DIM>>
    /\ BASE9.shape = <<DIM_MANDEL9, DIM, DIM>>
    /\ Orthonormal(BASE6)
    /\ Orthonormal(BASE9)
    /\ \A k \in 0 .. DIM_MANDEL6 * DD - 1 : BASE9.data[k] = BASE6.data[k]

C4_Witness ==
    /\ calls # <<>>
    /\ Dot(BASE9, 8, 8) = One
    /\ Dot(BASE9, 5, 8) = Zero
    /\ Dot(BASE6, 3, 3) = One
    /\ BASE9.data[At3(8, 0, 1)] = Neg(BASE9.data[At3(5, 0, 1)])

(***************************************************************************)
(* C5.  An input already in the target notation is returned as it is:      *)
(* to_mandel6 on a (6,) or (6,6) array, to_mandel9 on a (9,) or (9,9)      *)
(* array and to_tensor on a (3,3) or (3,3,3,3) array return the input      *)
(* array itself, with the same values.                                     *)
(***************************************************************************)
InTargetNotation ==
    /\ calls # <<>>
    /\ \/ Last = <<"to_mandel6">> /\ inp.shape \in {M6_2, M6_4}
       \/ Last = <<"to_mandel9">> /\ inp.shape \in {M9_2, M9_4}
       \/ Last = <<"to_tensor">> /\ inp.shape \in {T2, T4}

C5_PassThrough ==
    InTargetNotation
        => /\ err = NoError
           /\ out = inp
           /\ Len(calls) = 1 => Result = orig

C5_Witness ==
    /\ Made(<< <<"to_mandel9">> >>)
    /\ orig = Mixed(M9_4)
    /\ out = first
    /\ Result = orig

(***************************************************************************)
(* C6.  On an input whose shape is none of (3,3), (3,3,3,3), (6,), (6,6),  *)
(* (9,), (9,9), each of to_mandel6, to_mandel9 and to_tensor raises a      *)
(* lookup error carrying the shape and returns no array.                   *)
(***************************************************************************)
EntryPoints == {<<"to_mandel6">>, <<"to_mandel9">>, <<"to_tensor">>}

C6_UnknownShape ==
    (calls # <<>> /\ Last \in EntryPoints
        /\ inp.shape \notin {T2, T4, M6_2, M6_4, M9_2, M9_4})
        => (err = KeyError(inp.shape) /\ out = None)

C6_Witness ==
    /\ Made(<< <<"to_tensor">> >>)
    /\ inp.shape = <<4, 4>>
    /\ err = KeyError(<<4, 4>>)
    /\ out = None

(***************************************************************************)
(* C7.  voigt_to_mandel6(mandel6_to_voigt(x, q), q) = x for q in {stress,  *)
(* strain} and x of shape (6,), and for q in {stiffness, compliance} and   *)
(* x of shape (6,6).                                                       *)
(***************************************************************************)
Consistent(shape, q) ==
    \/ q \in {"stress", "strain"} /\ shape = M6_2
    \/ q \in {"stiffness", "compliance"} /\ shape = M6_4

C7_VoigtRoundTrip ==
    \A q \in {"stress", "strain", "stiffness", "compliance"} :
        (Made(<< <<"mandel6_to_voigt", q>>, <<"voigt_to_mandel6", q>> >>)
            /\ Consistent(orig.shape, q))
            => (err = NoError /\ Result = orig)

C7_Witness ==
    /\ Made(<< <<"mandel6_to_voigt", "stiffness">>,
               <<"voigt_to_mandel6", "stiffness">> >>)
    /\ orig = Mixed(M6_4)
    /\ Result = orig

(***************************************************************************)
(* C8.  mandel6_to_voigt scales exactly the listed segments: stress scales *)
(* entries 3..5 of a (6,) array by 1/sqrt(2), strain by sqrt(2); stiffness *)
(* scales the blocks (rows 0-2, cols 3-5) and (rows 3-5, cols 0-2) of a    *)
(* (6,6) array by 1/sqrt(2) and the block (rows 3-5, cols 3-5) by 1/2;     *)
(* compliance scales the same blocks by sqrt(2) and 2; every other entry   *)
(* equals the input's.                                                     *)
(***************************************************************************)
VoigtFactor(q, shape, k) ==
    LET r == k \div DIM_MANDEL6
        c == k % DIM_MANDEL6
    IN  CASE q = "stress"     -> IF k >= 3 THEN InvSqrt2 ELSE One
          [] q = "strain"     -> IF k >= 3 THEN Sqrt2 ELSE One
          [] q = "stiffness"  -> IF r >= 3 /\ c >= 3 THEN Half
                                 ELSE IF r >= 3 \/ c >= 3 THEN InvSqrt2 ELSE One
          [] q = "compliance" -> IF r >= 3 /\ c >= 3 THEN Int2Num(2)
                                 ELSE IF r >= 3 \/ c >= 3 THEN Sqrt2 ELSE One

C8_VoigtScaling ==
    \A q \in {"stress", "strain", "stiffness", "compliance"} :
        (Made(<< <<"mandel6_to_voigt", q>> >>) /\ Consistent(orig.shape, q))
            => /\ err = NoError
               /\ Result.shape = orig.shape
               /\ \A k \in DOMAIN orig.data :
                    Result.data[k] = Mul(orig.data[k], VoigtFactor(q, orig.shape, k))

C8_Witness ==
    /\ Made(<< <<"mandel6_to_voigt", "compliance">> >>)
    /\ orig = Ramp(M6_4)
    /\ Result.data[0] = Int2Num(1)
    /\ Result.data[3] = Mul(Int2Num(4), Sqrt2)
    /\ Result.data[35] = Int2Num(72)

(***************************************************************************)
(* C9.  mandel6_to_voigt and voigt_to_mandel6 called with a key outside    *)
(* {stress, strain, stiffness, compliance} raise a lookup error naming the *)
(* key, return no array and leave the input array unchanged.               *)
(***************************************************************************)
VoigtCallWith(cs, q) ==
    /\ cs # <<>>
    /\ cs[Len(cs)] \in {<<"mandel6_to_voigt", q>>, <<"voigt_to_mandel6", q>>}

C9_UnknownQuantity ==
    [][\A q \in VoigtTypes \ {"stress", "strain", "stiffness", "compliance"} :
          VoigtCallWith(calls', q)
              => /\ err' = KeyError(q)
                 /\ out' = None
                 /\ Read(heap', inp') = Read(heap, inp')]_vars

C9_Witness ==
    /\ Made(<< <<"mandel6_to_voigt", "strain">>, <<"voigt_to_mandel6", "shear">> >>)
    /\ err = KeyError("shear")
    /\ out = None
    /\ Read(heap, inp).data[3] = Mul(orig.data[3], Sqrt2)

(***************************************************************************)
(* C10.  Across every call BASE6 and BASE9 keep the values they had after  *)
(* construction, and the array passed as input has after the call the      *)
(* values it had before it.                                                *)
(***************************************************************************)
C10_Frame ==
    [][/\ BASE6' = BASE6
       /\ BASE9' = BASE9
       /\ Read(heap', inp') = Read(heap, inp')]_vars

C10_Witness ==
    /\ Made(<< <<"to_mandel6">>, <<"mandel6_to_voigt", "stiffness">> >>)
    /\ orig = Ramp(T4)
    /\ err = NoError
    /\ Result # Read(heap, inp)
    /\ BASE6 = get_mandel_base_sym
    /\ BASE9 = get_mandel_base_skw

(***************************************************************************)
(* C11.  Each call of to_mandel6, to_mandel9 and to_tensor allocates a     *)
(* fresh output: a later write to the returned array never changes the     *)
(* caller's input, and a later write to the input never changes the        *)
(* result.                                                                 *)
(***************************************************************************)
\* The step is a write by the caller, after a successful entry-point call.
WriteAfterEntry == written' # written /\ calls # <<>> /\ Last \in EntryPoints

C11_WriteIsolated ==
    [][WriteAfterEntry
          => /\ written'.target = "out" => Read(heap', inp) = Read(heap, inp)
             /\ written'.target = "inp" => Read(heap', out) = Read(heap, out)]_vars

(***************************************************************************)
(* C11, amended.  A call of to_mandel6, to_mandel9 or to_tensor returns an *)
(* array in a buffer of its own, which later writes to the input or to the *)
(* result do not cross, except in two cases: on an input already in the    *)
(* target notation it returns the input array itself, and to_mandel6 on a  *)
(* (9,) or (9,9) array returns a view on the input's buffer; in both, a    *)
(* write to either array shows in the other.                               *)
(***************************************************************************)
\* The call c on an array of this shape passes it through or slices it.
SharesStorage(c, shape) ==
    \/ c = <<"to_mandel6">> /\ shape \in {M6_2, M6_4, M9_2, M9_4}
    \/ c = <<"to_mandel9">> /\ shape \in {M9_2, M9_4}
    \/ c = <<"to_tensor">> /\ shape \in {T2, T4}

\* Position in the input of element k of the result of a sharing call c.
InInput(c, shape, k) ==
    IF c = <<"to_mandel6">> /\ shape = M9_4
    THEN (k \div DIM_MANDEL6) * DIM_MANDEL9 + (k % DIM_MANDEL6)
    ELSE k

C11_FreshUnlessPassedOrSliced ==
    [][/\ (calls' # calls /\ calls'[Len(calls')] \in EntryPoints /\ err' = NoError)
            => (out'.buf = inp'.buf
                   <=> SharesStorage(calls'[Len(calls')], inp'.shape))
       /\ (WriteAfterEntry /\ ~SharesStorage(Last, inp.shape))
            => /\ written'.target = "out" => Read(heap', inp) = Read(heap, inp)
               /\ written'.target = "inp" => Read(heap', out) = Read(heap, out)
       /\ (WriteAfterEntry /\ SharesStorage(Last, inp.shape)
              /\ written'.target = "out")
            => Read(heap', inp).data[InInput(Last, inp.shape, written'.k)] = WriteValue]_vars

C11_Witness ==
    /\ Made(<< <<"to_mandel6">> >>)
    /\ orig = Ramp(M9_4)
    /\ written = [target |-> "out", k |-> 35]
    /\ Result.data[35] = WriteValue
    /\ Read(heap, first).data[50] = WriteValue
    /\ orig.data[50] = Int2Num(51)

(***************************************************************************)
(* C12.  to_mandel9 puts a (6,) array in slots 0..5 and 0 in slots 6..8,   *)
(* and a (6,6) array in the block rows 0..5 x cols 0..5 with 0 wherever    *)
(* the row or the column is 6..8; to_mandel6 returns slots 0..5 of a (9,)  *)
(* array and the block rows 0..5 x cols 0..5 of a (9,9) array.  Hence      *)
(* to_mandel6(to_mandel9(m)) = m for every Mandel6 array m, while          *)
(* to_mandel9(to_mandel6(n)) = n exactly when every entry of n with an     *)
(* index in 6..8 is 0.                                                     *)
(***************************************************************************)
\* Every entry of the Mandel9 value n with an index in 6..8 is 0.
SkewFree(n) ==
    \A k \in DOMAIN n.data :
        (IF n.shape = M9_2 THEN k >= 6
         ELSE (k \div DIM_MANDEL9) >= 6 \/ (k % DIM_MANDEL9) >= 6)
            => n.data[k] = Zero

C12_PadTruncate ==
    /\ (Made(<< <<"to_mandel9">> >>) /\ orig.shape = M6_2)
          => /\ err = NoError /\ Result.shape = M9_2
             /\ \A k \in 0 .. 8 :
                  Result.data[k] = IF k < 6 THEN orig.data[k] ELSE Zero
    /\ (Made(<< <<"to_mandel9">> >>) /\ orig.shape = M6_4)
          => /\ err = NoError /\ Result.shape = M9_4
             /\ \A r, c \in 0 .. 8 :
                  Result.data[r * 9 + c] =
                      IF r < 6 /\ c < 6 THEN orig.data[r * 6 + c] ELSE Zero
    /\ (Made(<< <<"to_mandel6">> >>) /\ orig.shape = M9_2)
          => /\ err = NoError /\ Result.shape = M6_2
             /\ \A k \in 0 .. 5 : Result.data[k] = orig.data[k]
    /\ (Made(<< <<"to_mandel6">> >>) /\ orig.shape = M9_4)
          => /\ err = NoError /\ Result.shape = M6_4
             /\ \A r, c \in 0 .. 5 : Result.data[r * 6 + c] = orig.data[r * 9 + c]
    /\ (Made(<< <<"to_mandel9">>, <<"to_mandel6">> >>) /\ orig.shape \in {M6_2, M6_4})
          => (err = NoError /\ Result = orig)
    /\ (Made(<< <<"to_mandel6">>, <<"to_mandel9">> >>) /\ orig.shape \in {M9_2, M9_4})
          => (err = NoError /\ (Result = orig <=> SkewFree(orig)))

C12_Witness ==
    /\ Made(<< <<"to_mandel6">>, <<"to_mandel9">> >>)
    /\ orig = Ramp(M9_4)
    /\ Result.data[50] = Int2Num(51)
    /\ Result.data[80] = Zero
    /\ Result # orig

C12_WitnessPad ==
    /\ Made(<< <<"to_mandel9">>, <<"to_mandel6">> >>)
    /\ orig = Mixed(M6_2)
    /\ Read(heap, inp).data[8] = Zero
    /\ Result = orig

(***************************************************************************)
(* C13.  For every (3,3) array T, to_mandel6(T) is the vector              *)
(* [T00, T11, T22, (T12+T21)/sqrt2, (T02+T20)/sqrt2, (T01+T10)/sqrt2] in   *)
(* this order, so for symmetric T the last three entries are sqrt2*T12,    *)
(* sqrt2*T02, sqrt2*T01; the skew part of T does not enter, no error is    *)
(* raised for a non-symmetric T, and to_tensor(to_mandel6(T)) is           *)
(* (T + transpose(T)) / 2.                                                 *)
(***************************************************************************)
\* T[i, j] of a (3,3) value.
Tij(v, i, j) == v.data[i * DIM + j]

IsSymmetric(v) == \A p \in DOMAIN v.data : v.data[p] = v.data[Tr(p)]

\* (T + transpose(T)) / 2
SymPart(v) ==
    [v EXCEPT !.data = [p \in DOMAIN @ |-> Mul(Half, Add(@[p], @[Tr(p)]))]]

C13_Mandel6Vector ==
    /\ (Made(<< <<"to_mandel6">> >>) /\ orig.shape = T2)
          => /\ err = NoError
             /\ Result.shape = M6_2
             /\ Result.data[0] = Tij(orig, 0, 0)
             /\ Result.data[1] = Tij(orig, 1, 1)
             /\ Result.data[2] = Tij(orig, 2, 2)
             /\ Result.data[3] = Mul(InvSqrt2, Add(Tij(orig, 1, 2), Tij(orig, 2, 1)))
             /\ Result.data[4] = Mul(InvSqrt2, Add(Tij(orig, 0, 2), Tij(orig, 2, 0)))
             /\ Result.data[5] = Mul(InvSqrt2, Add(Tij(orig, 0, 1), Tij(orig, 1, 0)))
             /\ IsSymmetric(orig)
                  => /\ Result.data[3] = Mul(Sqrt2, Tij(orig, 1, 2))
                     /\ Result.data[4] = Mul(Sqrt2, Tij(orig, 0, 2))
                     /\ Result.data[5] = Mul(Sqrt2, Tij(orig, 0, 1))
    /\ (Made(<< <<"to_mandel6">>, <<"to_tensor">> >>) /\ orig.shape = T2)
          => (err = NoError /\ Result = SymPart(orig))

C13_Witness ==
    /\ Made(<< <<"to_mandel6">>, <<"to_tensor">> >>)
    /\ orig = Ramp(T2)
    /\ ~IsSymmetric(orig)
    /\ Read(heap, inp).data[3] = Mul(Int2Num(7), Sqrt2)
    /\ Tij(Result, 1, 2) = Int2Num(7)
    /\ Tij(Result, 2, 1) = Int2Num(7)

C13_WitnessSymmetric ==
    /\ Made(<< <<"to_mandel6">> >>)
    /\ orig = SymSum(Ramp(T2))
    /\ Result.data[5] = Mul(Sqrt2, Int2Num(6))

(***************************************************************************)
(* C14.  The direct Mandel6 <-> Mandel9 route agrees with the route        *)
(* through tensor notation: for every Mandel6 array m, to_mandel9(m) =     *)
(* to_mandel9(to_tensor(m)) and to_tensor(to_mandel9(m)) = to_tensor(m);   *)
(* for every tensor T, to_mandel6(to_mandel9(T)) = to_mandel6(T).          *)
(***************************************************************************)
\* The caller's first array, alone on a heap, and the value a call returns.
OrigHeap == <<orig.data>>
OrigObj == NewObj(<<>>, orig)
ValueOf(r) == Read(r.heap, r.ret)

C14_RoutesAgree ==
    /\ (Made(<< <<"to_tensor">>, <<"to_mandel9">> >>) /\ orig.shape \in {M6_2, M6_4})
          => /\ err = NoError
             /\ Result = ValueOf(to_mandel9(OrigHeap, OrigObj))
    /\ (Made(<< <<"to_mandel9">>, <<"to_tensor">> >>) /\ orig.shape \in {M6_2, M6_4})
          => /\ err = NoError
             /\ Result = ValueOf(to_tensor(OrigHeap, OrigObj))
    /\ (Made(<< <<"to_mandel9">>, <<"to_mandel6">> >>) /\ orig.shape \in {T2, T4})
          => /\ err = NoError
             /\ Result = ValueOf(to_mandel6(OrigHeap, OrigObj))

C14_Witness ==
    /\ Made(<< <<"to_tensor">>, <<"to_mandel9">> >>)
    /\ orig = Ramp(M6_4)
    /\ Result.shape = M9_4
    /\ Result.data[1] = Int2Num(2)
    /\ Result.data[9] = Int2Num(7)
    /\ Result.data[80] = Zero

C14_WitnessTensor ==
    /\ Made(<< <<"to_mandel9">>, <<"to_mandel6">> >>)
    /\ orig = Ramp(T4)
    /\ Result.shape = M6_4
    /\ Read(heap, inp).data[8] # Zero
=============================================================================
